---- MODULE Spec2Model ----
(***************************************************************************)
(* A model of src/abstractions.py: the dominance analyzer, the consensus   *)
(* RPC simulator, the contention model, the throughput optimizer and the   *)
(* integrated pipeline.                                                    *)
(*                                                                         *)
(* A Python object is a record of its fields and a method is an operator   *)
(* from the object (and the arguments) to the object after the call and    *)
(* the value returned.  A Python dict is a function whose DOMAIN is the    *)
(* set of keys present.  The proposal dicts of the simulator are shared by *)
(* reference, so they live in a heap and are named by their heap index.    *)
(* Numbers the program keeps as floats are kept as exact scaled integers   *)
(* or fractions; the scale is stated where each is introduced.             *)
(***************************************************************************)
EXTENDS Integers, Sequences, FiniteSets, TLC

\* ------------------------------------------------------------------ bounds
\* MaxPrepare: prepare calls in a run; MaxPromise: promises granted in a run;
\* MaxQuorum: the largest quorum size; MaxComponents: components of a list
\* given to the analyzer; MaxSystemComponents: of a list given to the
\* pipeline.
MaxPrepare == 2
MaxPromise == 3
MaxQuorum == 2
MaxComponents == 3
MaxSystemComponents == 2

\* ------------------------------------------------------------ input sets
RequestIds == {"req_001", "req_002"}
Payloads == {[payload |-> "test"], [payload |-> "other"]}
NodeIds == {"node1", "node2"}
\* last_timestamp: below every timestamp, and equal to or above one
LastTimestamps == {0, 2}
QuorumSizes == 1 .. MaxQuorum

\* Python's None, as a value comparable with the dict values of the model.
None == [none |-> TRUE]

\* The empty dict.
EmptyDict == [k \in {} |-> None]

\* d[k] = v on a dict.
DictSet(d, k, v) == [x \in (DOMAIN d) \cup {k} |-> IF x = k THEN v ELSE d[x]]

VARIABLES
  components,  \* the caller's list of Component objects
  analyzer,    \* a DominantLatencyAnalyzer object, None before construction
  consensus,   \* a ConsensusRPCScheme object
  contention_model,      \* a ContentionModel object
  throughput_optimizer,  \* a ThroughputOptimizer object
  system,      \* an IntegratedSystemOptimizer object
  last_check,  \* history: the result of the latest check_invariants call
  run_state,   \* history: how far run_full_optimization has got
  granted,     \* history: promise calls that returned True since the latest
               \* prepare of each request id
  lastCall     \* history: the last call made, its arguments and its result

vars == <<components, analyzer, consensus, contention_model,
          throughput_optimizer, system, last_check, run_state, granted,
          lastCall>>

\* What the calls on one object leave alone: the other objects.
exceptConsensus == <<components, analyzer, contention_model,
                     throughput_optimizer, system, last_check, run_state>>
exceptAnalyzer == <<consensus, contention_model, throughput_optimizer,
                    system, last_check, run_state, granted>>
exceptContention == <<components, analyzer, consensus,
                      throughput_optimizer, system, run_state, granted>>
exceptThroughput == <<components, analyzer, consensus, contention_model,
                      system, last_check, run_state, granted>>
exceptSystem == <<components, analyzer, consensus, contention_model,
                  throughput_optimizer, last_check, granted>>

NoCall == [op |-> "none"]

\* ---------------------------------------------------- ConsensusRPCScheme

\* ConsensusRPCScheme.__init__
SchemeNew(dominant_component, quorum_size) ==
  [dominant_component |-> dominant_component,
   quorum_size |-> quorum_size,
   proposals |-> EmptyDict,
   promises |-> EmptyDict,
   accepted |-> EmptyDict,
   current_timestamp |-> 0,
   heap |-> << >>]

\* self.current_timestamp += 1
NextTimestampStale(ts) == ts
NextTimestamp(ts) == ts + 1

\* The dict literal that prepare stores.
NewProposal(ts, data) ==
  [timestamp |-> ts, data |-> data, promises |-> 0, accepts |-> 0]

\* ConsensusRPCScheme.prepare
SchemePrepare(s, request_id, data) ==
  LET ts == NextTimestamp(s.current_timestamp)
      objs == Append(s.heap, NewProposal(ts, data))
  IN [self |-> [s EXCEPT !.current_timestamp = ts,
                         !.heap = objs,
                         !.proposals = DictSet(s.proposals, request_id, Len(objs))],
      ret |-> TRUE]

\* proposal['timestamp'] > last_timestamp
IsFreshOrEqual(proposal, last_timestamp) == proposal.timestamp >= last_timestamp
IsFresh(proposal, last_timestamp) == proposal.timestamp > last_timestamp

\* ConsensusRPCScheme.promise (line 110 of the source holds the remains of
\* the method's docstring and no statement; node_id is not read)
SchemePromise(s, request_id, node_id, last_timestamp) ==
  IF request_id \notin DOMAIN s.proposals
  THEN [self |-> s, ret |-> FALSE]
  ELSE LET ref == s.proposals[request_id] IN
       IF IsFresh(s.heap[ref], last_timestamp)
       THEN [self |-> [s EXCEPT !.heap[ref].promises = @ + 1], ret |-> TRUE]
       ELSE [self |-> s, ret |-> FALSE]

\* proposal['promises'] >= self.quorum_size
QuorumExceeded(proposal, q) == proposal.promises > q
QuorumReached(proposal, q) == proposal.promises >= q

\* ConsensusRPCScheme.accept: the accepted dict holds the proposal object
\* itself (the same reference), not a copy of it.
SchemeAccept(s, request_id) ==
  IF request_id \notin DOMAIN s.proposals
  THEN [self |-> s, ret |-> FALSE]
  ELSE LET ref == s.proposals[request_id] IN
       IF QuorumReached(s.heap[ref], s.quorum_size)
       THEN [self |-> [s EXCEPT !.heap[ref].accepts = s.heap[ref].promises,
                                !.accepted = DictSet(s.accepted, request_id, ref)],
             ret |-> TRUE]
       ELSE [self |-> s, ret |-> FALSE]

\* ConsensusRPCScheme.learn: self.accepted.get(request_id)
SchemeLearn(s, request_id) ==
  IF request_id \in DOMAIN s.accepted
  THEN s.heap[s.accepted[request_id]]
  ELSE None

\* The promises granted so far, over all proposals.
RECURSIVE TotalPromises(_)
TotalPromises(objs) ==
  IF objs = << >> THEN 0 ELSE Head(objs).promises + TotalPromises(Tail(objs))

ConsensusInit ==
  /\ \E q \in QuorumSizes : consensus = SchemeNew("WebGateway", q)
  /\ granted = [r \in RequestIds |-> 0]
  /\ lastCall = NoCall
  /\ components = << >>
  /\ analyzer = None
  /\ contention_model = None
  /\ throughput_optimizer = None
  /\ system = None
  /\ last_check = None
  /\ run_state = "never"

Prepare(request_id, data) ==
  LET r == SchemePrepare(consensus, request_id, data) IN
  /\ Len(consensus.heap) < MaxPrepare
  /\ consensus' = r.self
  /\ granted' = [granted EXCEPT ![request_id] = 0]
  /\ lastCall' = [op |-> "prepare", id |-> request_id, data |-> data,
                  ret |-> r.ret]

Promise(request_id, node_id, last_timestamp) ==
  LET r == SchemePromise(consensus, request_id, node_id, last_timestamp) IN
  /\ TotalPromises(r.self.heap) <= MaxPromise
  /\ consensus' = r.self
  /\ granted' = IF r.ret THEN [granted EXCEPT ![request_id] = @ + 1]
                ELSE granted
  /\ lastCall' = [op |-> "promise", id |-> request_id, node |-> node_id,
                  last |-> last_timestamp, ret |-> r.ret]

Accept(request_id) ==
  LET r == SchemeAccept(consensus, request_id) IN
  /\ consensus' = r.self
  /\ lastCall' = [op |-> "accept", id |-> request_id, ret |-> r.ret]
  /\ UNCHANGED granted

Learn(request_id) ==
  /\ lastCall' = [op |-> "learn", id |-> request_id,
                  ret |-> SchemeLearn(consensus, request_id)]
  /\ UNCHANGED <<consensus, granted>>

DoPrepare ==
  /\ \E r \in RequestIds, d \in Payloads : Prepare(r, d)
  /\ UNCHANGED exceptConsensus
DoPromise ==
  /\ \E r \in RequestIds, n \in NodeIds, t \in LastTimestamps :
        Promise(r, n, t)
  /\ UNCHANGED exceptConsensus
DoAccept ==
  /\ \E r \in RequestIds : Accept(r)
  /\ UNCHANGED exceptConsensus
DoLearn ==
  /\ \E r \in RequestIds : Learn(r)
  /\ UNCHANGED exceptConsensus

ConsensusNext == DoPrepare \/ DoPromise \/ DoAccept \/ DoLearn

SpecConsensus == ConsensusInit /\ [][ConsensusNext]_vars

\* ------------------------------------------------ claims on the simulator

\* The current proposal object of a request id, in a simulator s.
ProposalIn(s, r) == s.heap[s.proposals[r]]

\* The accepted entry of a request id, in a simulator s.
AcceptedIn(s, r) == s.heap[s.accepted[r]]

\* The current proposal object of a request id.
Proposal(r) == ProposalIn(consensus, r)

\* The promise count of the current proposal of a request id (0 if unknown).
PromiseCount(r) ==
  IF r \in DOMAIN consensus.proposals THEN Proposal(r).promises ELSE 0

\* The accepted entry of a request id.
AcceptedEntry(r) == AcceptedIn(consensus, r)

\* C1: accept(id) returns true exactly when id has been prepared and its
\* current proposal's promise count is at least the quorum size, and then
\* records that proposal as accepted with accept count = promise count; a
\* failing accept leaves the accepted set and every proposal as they were.
C1_AcceptIffQuorum ==
  [][lastCall'.op = "accept" =>
       LET id == lastCall'.id
           ok == /\ id \in DOMAIN consensus.proposals
                 /\ PromiseCount(id) >= consensus.quorum_size
       IN /\ lastCall'.ret = ok
          /\ ok => /\ id \in DOMAIN consensus'.accepted
                   /\ AcceptedIn(consensus', id) =
                        [Proposal(id) EXCEPT !.accepts = PromiseCount(id)]
          /\ ~ok => consensus' = consensus
    ]_vars

\* With quorum size 2 an accept has succeeded on exactly two promises.
C1_Witness ==
  /\ consensus.quorum_size = 2
  /\ lastCall.op = "accept"
  /\ lastCall.ret = TRUE
  /\ AcceptedEntry(lastCall.id).promises = 2

\* C2: once accept(id) has succeeded, the accepted entry of id (timestamp,
\* data, promise count, accept count) is changed by no later call.
C2_AcceptedImmutable ==
  [][\A r \in DOMAIN consensus.accepted :
        /\ r \in DOMAIN consensus'.accepted
        /\ AcceptedIn(consensus', r) = AcceptedEntry(r)
    ]_vars

\* C3: learn(id) returns the payload passed to prepare for the accepted
\* proposal of id, and None for an id that was never accepted.
C3_LearnReturnsData ==
  lastCall.op = "learn" =>
    lastCall.ret = IF lastCall.id \in DOMAIN consensus.accepted
                   THEN AcceptedEntry(lastCall.id).data
                   ELSE None

\* C4: every prepare strictly increases the timestamp counter and stamps the
\* new proposal with the new counter value, which no earlier proposal
\* carries; the proposal that replaces an existing one has a strictly larger
\* timestamp and promise and accept counts of 0.
C4_PrepareFreshTimestamp ==
  [][lastCall'.op = "prepare" =>
       LET id == lastCall'.id
           new == ProposalIn(consensus', id)
       IN /\ lastCall'.ret = TRUE
          /\ consensus'.current_timestamp > consensus.current_timestamp
          /\ new = [timestamp |-> consensus'.current_timestamp,
                    data |-> lastCall'.data, promises |-> 0, accepts |-> 0]
          /\ \A i \in DOMAIN consensus.heap :
               consensus.heap[i].timestamp # new.timestamp
          /\ id \in DOMAIN consensus.proposals =>
               new.timestamp > Proposal(id).timestamp
    ]_vars

\* A request id has been prepared a second time, with other data, after its
\* first proposal gathered a promise.
C4_Witness ==
  /\ lastCall.op = "prepare"
  /\ Len(consensus.heap) = 2
  /\ DOMAIN consensus.proposals = {lastCall.id}
  /\ consensus.heap[1].data # consensus.heap[2].data
  /\ consensus.heap[1].promises > 0

\* C5, the calls: promise returns false and changes nothing when the id is
\* unknown or the proposal's timestamp is not strictly greater than
\* last_timestamp; otherwise it returns true and adds exactly one promise to
\* that proposal and changes nothing else.
C5_PromiseStep ==
  lastCall'.op = "promise" =>
    LET id == lastCall'.id
        fresh == /\ id \in DOMAIN consensus.proposals
                 /\ Proposal(id).timestamp > lastCall'.last
    IN /\ lastCall'.ret = fresh
       /\ ~fresh => consensus' = consensus
       /\ fresh => consensus' =
            [consensus EXCEPT !.heap[consensus.proposals[id]].promises = @ + 1]

\* C5, the count: the promise count of every current proposal is the number
\* of promise calls that returned true since the latest prepare of its id.
C5_CountIsGranted == \A r \in RequestIds : PromiseCount(r) = granted[r]

\* C5: the two parts together.
C5_PromiseCounts == [][C5_PromiseStep]_vars /\ []C5_CountIsGranted

\* The same node has been granted a second promise on one proposal.
C5_Witness ==
  /\ lastCall.op = "promise"
  /\ lastCall.ret = TRUE
  /\ lastCall.node = "node1"
  /\ PromiseCount(lastCall.id) = 2
  /\ consensus.current_timestamp = 1

\* -------------------------------------------------------------- Component

\* Component names, in the order of the reference run.
Names ==
  <<"AuthCore", "QueueRelay", "EdgeOrchestrator", "WebGateway",
    "CloudInference">>

Latencies == {21, 42}
Throughputs == {0, 500}

\* Component.dependency of a root: None.  A dependency is tested only by its
\* truth value, under which None and the empty name are alike.
NoDependency == ""

\* A Component object.  memory_gb is in tenths of a GB and
\* reliability_percent in tenths of a percent; cpu_percent and fault_events
\* are read by no method and are left out.
MakeComponent(name, mem, lat, thr, rel, rps, dep) ==
  [name |-> name, memory_gb |-> mem, latency_ms |-> lat,
   throughput_mbps |-> thr, reliability_percent |-> rel,
   requests_per_sec |-> rps, dependency |-> dep]

\* What varies from one component of an input list to another.
ComponentChoices(n) ==
  [latency_ms : Latencies, throughput_mbps : Throughputs,
   dependency : {Names[i] : i \in 1 .. n} \cup {NoDependency}]

\* The same, for the lists the whole pipeline is run on.
SystemChoices(n) == {c \in ComponentChoices(n) : c.latency_ms = 21}

\* The list of n components named Names[1..n] that f chooses; each depends
\* on nothing or on any component of the list, itself included.
ComponentList(n, f) ==
  [i \in 1 .. n |->
     MakeComponent(Names[i], 24, f[i].latency_ms, f[i].throughput_mbps,
                   976, 165, f[i].dependency)]

\* cs is an input list of the model.
IsComponentList(cs) ==
  \E n \in 1 .. MaxComponents :
    \E f \in [1 .. n -> ComponentChoices(n)] : cs = ComponentList(n, f)

\* ------------------------------------------------ DominantLatencyAnalyzer

\* self.components[name]: the dict keeps the insertion order of the list.
Lookup(cs, name) == cs[CHOOSE i \in DOMAIN cs : cs[i].name = name]

\* if comp.dependency: (None is falsy, a name is truthy)
HasDependency(comp) == comp.dependency # NoDependency

\* DominantLatencyAnalyzer._build_dependency_chain
BuildDependencyChain(cs) ==
  [name \in {cs[i].name : i \in DOMAIN cs} |->
     LET kids == SelectSeq(cs, LAMBDA c : HasDependency(c) /\ c.dependency = name)
     IN [k \in DOMAIN kids |-> kids[k].name]]

\* DominantLatencyAnalyzer.__init__
AnalyzerNew(cs) ==
  [components |-> cs, dependency_chain |-> BuildDependencyChain(cs)]

\* The interpreter stops a recursion deeper than its recursion limit with a
\* RecursionError.  A chain of calls longer than the number of components
\* revisits a component and so never ends by itself; the limit of the model
\* is the first depth that only such a chain reaches.
RecursionLimit == MaxComponents + 1
RecursionError == -1

\* DominantLatencyAnalyzer.calculate_cumulative_latency, at a call depth
RECURSIVE CumulativeLatencyAt(_, _, _)
CumulativeLatencyAt(a, component_name, depth) ==
  IF depth > RecursionLimit THEN RecursionError
  ELSE LET comp == Lookup(a.components, component_name) IN
       IF ~HasDependency(comp) THEN comp.latency_ms
       ELSE LET up == CumulativeLatencyAt(a, comp.dependency, depth + 1) IN
            IF up = RecursionError THEN RecursionError
            ELSE comp.latency_ms + up

CalculateCumulativeLatency(a, component_name) ==
  CumulativeLatencyAt(a, component_name, 1)

\* DominantLatencyAnalyzer.calculate_downstream_throughput, at a call depth
RECURSIVE DownstreamThroughputAt(_, _, _)
DownstreamThroughputAt(a, component_name, depth) ==
  IF depth > RecursionLimit THEN RecursionError
  ELSE LET dependents == a.dependency_chain[component_name]
           RECURSIVE Loop(_, _)
           Loop(total, k) ==
             IF k > Len(dependents) THEN total
             ELSE LET d == DownstreamThroughputAt(a, dependents[k], depth + 1)
                  IN IF d = RecursionError THEN RecursionError
                     ELSE Loop(total + d, k + 1)
       IN Loop(Lookup(a.components, component_name).throughput_mbps, 1)

CalculateDownstreamThroughput(a, component_name) ==
  DownstreamThroughputAt(a, component_name, 1)

\* float('inf'), as a fraction
Infinity == [num |-> 1, den |-> 0]

\* latency / downstream_throughput if downstream_throughput > 0
\* else float('inf'); the quotient is kept as an exact fraction
Ratio(latency, downstream_throughput) ==
  IF downstream_throughput > 0
  THEN [num |-> latency, den |-> downstream_throughput]
  ELSE Infinity

\* x > y on two ratios (non-negative fractions, or infinity)
RatioGreaterOrEqual(x, y) == x.num * y.den >= y.num * x.den
RatioGreater(x, y) == x.num * y.den > y.num * x.den

\* max(metrics.items(), key=...): the first item is the maximum so far and a
\* later one replaces it only when its key is greater.
RECURSIVE MaxByRatio(_, _, _, _)
MaxByRatio(order, metrics, best, k) ==
  IF k > Len(order) THEN best
  ELSE IF RatioGreater(metrics[order[k]].latency_throughput_ratio,
                       metrics[best].latency_throughput_ratio)
       THEN MaxByRatio(order, metrics, order[k], k + 1)
       ELSE MaxByRatio(order, metrics, best, k + 1)

\* DominantLatencyAnalyzer.identify_dominant_source
IdentifyDominantSource(a) ==
  LET order == [i \in DOMAIN a.components |-> a.components[i].name]
      names == {order[i] : i \in DOMAIN order}
      down == [n \in names |-> CalculateDownstreamThroughput(a, n)]
      cum == [n \in names |-> CalculateCumulativeLatency(a, n)]
  IN IF \E n \in names : down[n] = RecursionError \/ cum[n] = RecursionError
     THEN [raised |-> "RecursionError"]
     ELSE LET metrics ==
                [n \in names |->
                   [latency |-> Lookup(a.components, n).latency_ms,
                    cumulative_latency |-> cum[n],
                    downstream_throughput |-> down[n],
                    latency_throughput_ratio |->
                      Ratio(Lookup(a.components, n).latency_ms, down[n])]]
          IN [raised |-> "no", dominant |-> MaxByRatio(order, metrics, order[1], 2),
              metrics |-> metrics]

AnalyzerInit ==
  /\ IsComponentList(components)
  /\ analyzer = None
  /\ lastCall = NoCall
  /\ consensus = None
  /\ granted = [r \in RequestIds |-> 0]
  /\ contention_model = None
  /\ throughput_optimizer = None
  /\ system = None
  /\ last_check = None
  /\ run_state = "never"

ConstructAnalyzer ==
  /\ analyzer = None
  /\ analyzer' = AnalyzerNew(components)
  /\ lastCall' = [op |-> "DominantLatencyAnalyzer", ret |-> "constructed"]
  /\ UNCHANGED components
  /\ UNCHANGED exceptAnalyzer

DoIdentifyDominantSource ==
  /\ analyzer # None
  /\ lastCall' = [op |-> "identify_dominant_source",
                  ret |-> IdentifyDominantSource(analyzer)]
  /\ UNCHANGED <<components, analyzer>>
  /\ UNCHANGED exceptAnalyzer

AnalyzerNext == ConstructAnalyzer \/ DoIdentifyDominantSource

SpecAnalyzer == AnalyzerInit /\ [][AnalyzerNext]_vars

\* -------------------------------------------------- claims on the analyzer

\* The position in the list of the component a component depends on, 0 if none.
DependencyOf(cs, i) ==
  IF cs[i].dependency = NoDependency THEN 0
  ELSE CHOOSE j \in DOMAIN cs : cs[j].name = cs[i].dependency

\* The components reached from i by following k or fewer dependency
\* pointers, one at least.
RECURSIVE Upstream(_, _, _)
Upstream(cs, i, k) ==
  IF k = 0 \/ DependencyOf(cs, i) = 0 THEN {}
  ELSE {DependencyOf(cs, i)} \cup Upstream(cs, DependencyOf(cs, i), k - 1)

\* The dependency pointers form a forest.
Acyclic(cs) == \A i \in DOMAIN cs : i \notin Upstream(cs, i, Len(cs))

\* The transitive dependents of component i.
Dependents(cs, i) == {j \in DOMAIN cs : i \in Upstream(cs, j, Len(cs))}

RECURSIVE SumThroughput(_, _)
SumThroughput(cs, S) ==
  IF S = {} THEN 0
  ELSE LET j == CHOOSE x \in S : TRUE
       IN cs[j].throughput_mbps + SumThroughput(cs, S \ {j})

\* Own throughput plus that of all transitive dependents.
Downstream(cs, i) == SumThroughput(cs, {i} \cup Dependents(cs, i))

\* latency(i) / downstream(i) <= latency(j) / downstream(j), a ratio with a
\* zero downstream throughput counting as +infinity.
RatioAtMost(cs, i, j) ==
  LET di == Downstream(cs, i)
      dj == Downstream(cs, j)
  IN IF dj = 0 THEN TRUE
     ELSE IF di = 0 THEN FALSE
     ELSE cs[i].latency_ms * dj <= cs[j].latency_ms * di

\* C6: on an acyclic registry identify_dominant_source returns the first
\* component, in input order, whose ratio latency / downstream throughput
\* no other component exceeds.
C6_DominantIsFirstMaximum ==
  (lastCall.op = "identify_dominant_source" /\ Acyclic(components)) =>
    /\ lastCall.ret.raised = "no"
    /\ \E d \in DOMAIN components :
         /\ lastCall.ret.dominant = components[d].name
         /\ \A j \in DOMAIN components : RatioAtMost(components, j, d)
         /\ \A j \in 1 .. d - 1 : ~RatioAtMost(components, d, j)

\* Three components in a chain; the first and the last tie for the maximal
\* ratio through their downstream sums, and the first is returned.
C6_Witness ==
  /\ lastCall.op = "identify_dominant_source"
  /\ Len(components) = 3
  /\ components[2].dependency = "AuthCore"
  /\ components[3].dependency = "QueueRelay"
  /\ Downstream(components, 1) = 1000
  /\ components[1].latency_ms = 42
  /\ components[3].latency_ms = 21
  /\ components[3].throughput_mbps = 500
  /\ lastCall.ret.raised = "no"
  /\ lastCall.ret.dominant = "AuthCore"

\* C7: a component list whose dependency pointers contain a cycle is
\* rejected at construction, so no analyzer exists for it and no analysis
\* runs into the unbounded recursion.
C7_CyclicRejected ==
  ~Acyclic(components) =>
    /\ analyzer = None
    /\ lastCall.op # "identify_dominant_source"

\* -------------------------------------------------------- ContentionModel

\* ContentionModel.__init__
ContentionNew(component, quorum_size) ==
  [component |-> component, quorum_size |-> quorum_size,
   invariants_valid |-> TRUE]

\* ContentionModel.calculate_contention, as an exact fraction
CalculateContention(m) ==
  [num |-> m.component.requests_per_sec * m.component.latency_ms,
   den |-> 1000 * m.quorum_size]

\* i2 = self.component.reliability_percent >= 94.7 (in tenths of a percent)
ReliabilityAbove(component) == component.reliability_percent > 947
ReliabilityHolds(component) == component.reliability_percent >= 947

\* i3 = quorum_available >= (2/3), quorum_available being a fraction
QuorumAvailable(quorum_available) ==
  3 * quorum_available.num >= 2 * quorum_available.den

\* ContentionModel.check_invariants
CheckInvariants(m, is_latency_dominant, quorum_available) ==
  LET i1 == is_latency_dominant
      i2 == ReliabilityHolds(m.component)
      i3 == QuorumAvailable(quorum_available)
      valid == i1 /\ i2 /\ i3
  IN [self |-> [m EXCEPT !.invariants_valid = valid], ret |-> valid]

\* ContentionModel.is_feasible
IsFeasible(m) == m.invariants_valid

Reliabilities == {924, 946, 947, 976}
QuorumAvailabilities ==
  {[num |-> 1, den |-> 2], [num |-> 2, den |-> 3], [num |-> 3, den |-> 4],
   [num |-> 19, den |-> 20]}

ContentionInit ==
  /\ \E rel \in Reliabilities, lat \in Latencies, q \in QuorumSizes :
       contention_model =
         ContentionNew(MakeComponent("WebGateway", 37, lat, 690, rel, 215,
                                     "EdgeOrchestrator"), q)
  /\ last_check = None
  /\ lastCall = NoCall
  /\ components = << >>
  /\ analyzer = None
  /\ consensus = None
  /\ granted = [r \in RequestIds |-> 0]
  /\ throughput_optimizer = None
  /\ system = None
  /\ run_state = "never"

DoCalculateContention ==
  /\ lastCall' = [op |-> "calculate_contention",
                  ret |-> CalculateContention(contention_model)]
  /\ UNCHANGED <<contention_model, last_check, exceptContention>>

DoCheckInvariants ==
  \E flag \in BOOLEAN, qa \in QuorumAvailabilities :
    LET r == CheckInvariants(contention_model, flag, qa) IN
    /\ contention_model' = r.self
    /\ last_check' = [ret |-> r.ret]
    /\ lastCall' = [op |-> "check_invariants", flag |-> flag,
                    quorum_available |-> qa, ret |-> r.ret]
    /\ UNCHANGED exceptContention

DoIsFeasible ==
  /\ lastCall' = [op |-> "is_feasible", ret |-> IsFeasible(contention_model)]
  /\ UNCHANGED <<contention_model, last_check, exceptContention>>

ContentionNext == DoCalculateContention \/ DoCheckInvariants \/ DoIsFeasible

SpecContention == ContentionInit /\ [][ContentionNext]_vars

\* C10, the calls: check_invariants returns true exactly when the flag is
\* true, the reliability is at least 94.7 and the quorum availability at
\* least 2/3; is_feasible returns true before any check_invariants call and
\* the result of the latest check_invariants call after one.
C10_Step ==
  /\ lastCall'.op = "check_invariants" =>
       lastCall'.ret =
         (/\ lastCall'.flag
          /\ contention_model.component.reliability_percent >= 947
          /\ 3 * lastCall'.quorum_available.num >=
               2 * lastCall'.quorum_available.den)
  /\ lastCall'.op = "is_feasible" =>
       lastCall'.ret = IF last_check = None THEN TRUE ELSE last_check.ret

\* C10: every call behaves so.
C10_Feasibility == [][C10_Step]_vars

\* is_feasible has reported a successful check at the boundary: reliability
\* exactly 94.7 (a check with it can only succeed on a true flag and a
\* quorum availability of 2/3 or more).
C10_Witness ==
  /\ lastCall.op = "is_feasible"
  /\ lastCall.ret = TRUE
  /\ contention_model.component.reliability_percent = 947
  /\ last_check = [ret |-> TRUE]

\* ---------------------------------------------- LatencyElasticityOptimizer

\* alpha: float = 0.2 and beta: float = 1.5, as fractions
DefaultAlpha == [num |-> 1, den |-> 5]
DefaultBeta == [num |-> 3, den |-> 2]

\* LatencyElasticityOptimizer.__init__
ElasticityNew(base_latency, alpha, beta) ==
  [base_latency |-> base_latency, alpha |-> alpha, beta |-> beta]

\* LatencyElasticityOptimizer.effective_latency.  The value
\* base_latency * (1 + alpha * contention ** beta) is irrational in general
\* and is kept as the expression, by its operands; contention is a fraction.
EffectiveLatency(e, contention) ==
  [base_latency |-> e.base_latency, alpha |-> e.alpha, beta |-> e.beta,
   contention |-> contention]

\* LatencyElasticityOptimizer.optimal_contention: 0 if beta <= 1, else
\* (beta / (alpha * (beta - 1))) ** (1 / beta), kept as radicand and exponent
OptimalContention(e) ==
  IF e.beta.num <= e.beta.den
  THEN [num |-> 0, den |-> 1]
  ELSE [radicand |-> [num |-> e.beta.num * e.alpha.den,
                      den |-> e.alpha.num * (e.beta.num - e.beta.den)],
        exponent |-> [num |-> e.beta.den, den |-> e.beta.num]]

\* -------------------------------------------------------- ThroughputOptimizer

\* request_size_gb: float = 0.05 and divergence_limit: float = 0.15, both
\* in hundredths
DefaultRequestSize == 5
DefaultDivergenceLimit == 15

\* range(1, 100): the grid samples i * 0.1 are named by i
GridStop == 100

\* ThroughputOptimizer.__init__
ThroughputNew(component, request_size_gb, divergence_limit) ==
  [component |-> component, request_size_gb |-> request_size_gb,
   divergence_limit |-> divergence_limit,
   elasticity_optimizer |->
     ElasticityNew(component.latency_ms, DefaultAlpha, DefaultBeta)]

\* ThroughputOptimizer.memory_divergence, for a contention of i tenths: the
\* value memory_gb + request_size_gb * contention * l_eff / 1000, kept as the
\* expression
MemoryDivergence(t, i) ==
  [memory_gb |-> t.component.memory_gb, request_size_gb |-> t.request_size_gb,
   contention |-> i,
   l_eff |-> EffectiveLatency(t.elasticity_optimizer, [num |-> i, den |-> 10])]

\* ThroughputOptimizer.max_memory_allowed: memory_gb * (1 + divergence_limit)
\* in thousandths of a GB
MaxMemoryAllowed(t) == t.component.memory_gb * (100 + t.divergence_limit)

\* Natural numbers beyond the width of the checker's integers, as sequences
\* of digits in base 1000, least significant first and without leading
\* zeros.  They carry the products of the memory test below.
Base == 1000

RECURSIVE BigOf(_)
BigOf(n) == IF n = 0 THEN << >> ELSE <<n % Base>> \o BigOf(n \div Base)

RECURSIVE BigTimesCarry(_, _, _)
BigTimesCarry(b, m, carry) ==
  IF b = << >> THEN BigOf(carry)
  ELSE LET x == Head(b) * m + carry
       IN <<x % Base>> \o BigTimesCarry(Tail(b), m, x \div Base)

\* b * m, for 0 <= m < 2 000 000
BigTimes(b, m) == IF m = 0 THEN << >> ELSE BigTimesCarry(b, m, 0)

\* a < b on numbers of the same length, from the most significant digit
RECURSIVE BigLessFrom(_, _, _)
BigLessFrom(a, b, k) ==
  IF k = 0 THEN FALSE
  ELSE IF a[k] # b[k] THEN a[k] < b[k]
  ELSE BigLessFrom(a, b, k - 1)

BigLess(a, b) ==
  IF Len(a) # Len(b) THEN Len(a) < Len(b) ELSE BigLessFrom(a, b, Len(a))

\* mem <= max_mem, for mem = MemoryDivergence(t, i), decided exactly.  With
\* A = request_size * i * latency and B = 1000 * memory * divergence_limit
\* (both sides of the test scaled by 10^6) and the optimizer's own
\* alpha = 1/5, beta = 3/2 the test is A * (1 + c^1.5 / 5) <= B, that is
\* A * c^1.5 <= 5 * (B - A), of which both sides are squared
\* (c^3 = i^3 / 1000): A^2 * i^3 <= 25000 * (B - A)^2.
QueuedSquared(t, i) ==
  LET A == t.request_size_gb * i * t.component.latency_ms
  IN BigTimes(BigTimes(BigTimes(BigTimes(BigOf(A), A), i), i), i)

SlackSquared(t, i) ==
  LET A == t.request_size_gb * i * t.component.latency_ms
      B == 1000 * t.component.memory_gb * t.divergence_limit
  IN BigTimes(BigTimes(BigOf(25000), B - A), B - A)

MemoryFits(t, i) ==
  LET A == t.request_size_gb * i * t.component.latency_ms
      B == 1000 * t.component.memory_gb * t.divergence_limit
  IN /\ B - A >= 0
     /\ ~BigLess(SlackSquared(t, i), QueuedSquared(t, i))

\* mem == 0.0, for mem = MemoryDivergence(t, i): no base memory and nothing
\* queued
MemoryIsZero(t, i) ==
  /\ t.component.memory_gb = 0
  /\ t.request_size_gb * i * t.component.latency_ms = 0

\* best_throughput = 0, and throughput_mbps * (max_mem / mem) at sample i
ZeroThroughput == [scale |-> 0, at |-> 0]
ThroughputAt(t, i) == [scale |-> t.component.throughput_mbps, at |-> i]

\* throughput > best_throughput, for throughput = ThroughputAt(t, i) of a
\* sample that fits (0 < mem <= max_mem, so max_mem / mem >= 1).  Against
\* the initial 0 the factor decides; against an earlier sample j < i the
\* used memory decides, and it grows with the contention whenever requests
\* have a size and a latency.
ThroughputGreater(t, i, best) ==
  IF best.at = 0
  THEN t.component.throughput_mbps > 0
  ELSE /\ t.component.throughput_mbps > 0
       /\ t.request_size_gb * t.component.latency_ms > 0
       /\ i < best.at

\* The body of the for loop of optimize_throughput at sample i; best is
\* (best_contention, best_throughput).
SearchStep(t, i, best) ==
  IF MemoryFits(t, i)
  THEN IF MemoryIsZero(t, i) THEN [raised |-> "ZeroDivisionError"]
       ELSE IF ThroughputGreater(t, i, best.throughput)
            THEN [raised |-> "no",
                  best |-> [contention |-> i, throughput |-> ThroughputAt(t, i)]]
            ELSE [raised |-> "no", best |-> best]
  ELSE [raised |-> "no", best |-> best]

\* The for loop of optimize_throughput over the samples lo .. hi, in order
\* (the range is halved so that the evaluation stays shallow).
RECURSIVE SearchRange(_, _, _, _)
SearchRange(t, lo, hi, best) ==
  IF lo = hi THEN SearchStep(t, lo, best)
  ELSE LET mid == (lo + hi) \div 2
           first == SearchRange(t, lo, mid, best)
       IN IF first.raised # "no" THEN first
          ELSE SearchRange(t, mid + 1, hi, first.best)

\* ThroughputOptimizer.optimize_throughput
OptimizeThroughput(t) ==
  LET found == SearchRange(t, 1, GridStop - 1,
                           [contention |-> 0, throughput |-> ZeroThroughput])
  IN IF found.raised # "no" THEN [raised |-> found.raised]
     ELSE IF t.component.throughput_mbps = 0
          THEN [raised |-> "ZeroDivisionError"]
          ELSE [raised |-> "no",
                optimal_contention |-> found.best.contention,
                optimized_throughput |-> found.best.throughput,
                current_throughput |-> t.component.throughput_mbps,
                improvement_percent |->
                  [of |-> found.best.throughput,
                   over |-> t.component.throughput_mbps],
                memory_used |-> MemoryDivergence(t, found.best.contention),
                memory_max |-> MaxMemoryAllowed(t)]

Memories == {0, 24}
BaseLatencies == {0, 21}
DivergenceLimits == {-50, 0, DefaultDivergenceLimit}
Contentions == {1, 50}

ThroughputInit ==
  /\ \E mem \in Memories, lat \in BaseLatencies, thr \in Throughputs,
        d \in DivergenceLimits :
       throughput_optimizer =
         ThroughputNew(MakeComponent("AuthCore", mem, lat, thr, 976, 165,
                                     NoDependency), DefaultRequestSize, d)
  /\ lastCall = NoCall
  /\ components = << >>
  /\ analyzer = None
  /\ consensus = None
  /\ granted = [r \in RequestIds |-> 0]
  /\ contention_model = None
  /\ last_check = None
  /\ system = None
  /\ run_state = "never"

DoMemoryDivergence ==
  /\ \E i \in Contentions :
       lastCall' = [op |-> "memory_divergence", contention |-> i,
                    ret |-> MemoryDivergence(throughput_optimizer, i)]
  /\ UNCHANGED <<throughput_optimizer, exceptThroughput>>

DoMaxMemoryAllowed ==
  /\ lastCall' = [op |-> "max_memory_allowed",
                  ret |-> MaxMemoryAllowed(throughput_optimizer)]
  /\ UNCHANGED <<throughput_optimizer, exceptThroughput>>

DoOptimizeThroughput ==
  /\ lastCall' = [op |-> "optimize_throughput",
                  ret |-> OptimizeThroughput(throughput_optimizer)]
  /\ UNCHANGED <<throughput_optimizer, exceptThroughput>>

ThroughputNext ==
  DoMemoryDivergence \/ DoMaxMemoryAllowed \/ DoOptimizeThroughput

SpecThroughput == ThroughputInit /\ [][ThroughputNext]_vars

\* No grid sample satisfies the memory ceiling.
NoSampleFits(t) == \A i \in 1 .. GridStop - 1 : ~MemoryFits(t, i)

\* C9: when no grid sample satisfies the memory ceiling, optimize_throughput
\* completes without raising and returns optimal contention 0 and optimized
\* throughput 0, for every component.
C9_DegenerateSearch ==
  (lastCall.op = "optimize_throughput" /\ NoSampleFits(throughput_optimizer)) =>
    /\ lastCall.ret.raised = "no"
    /\ lastCall.ret.optimal_contention = 0
    /\ lastCall.ret.optimized_throughput = ZeroThroughput

\* -------------------------------------------------- IntegratedSystemOptimizer

\* IntegratedSystemOptimizer.__init__
SystemNew(cs) == [components |-> cs, results |-> EmptyDict]

\* next(c for c in self.components if c.name == dominant)
FirstNamed(cs, name) ==
  cs[CHOOSE i \in DOMAIN cs :
       /\ cs[i].name = name
       /\ \A j \in 1 .. i - 1 : cs[j].name # name]

\* Part (b) of run_full_optimization: the scheme for the dominant component
\* after the simulated round of prepare, two promises and accept.
SimulatedConsensus(dominant) ==
  LET s0 == SchemeNew(dominant, 2)
      s1 == SchemePrepare(s0, "req_001", [payload |-> "test"]).self
      s2 == SchemePromise(s1, "req_001", "node1", 0).self
      s3 == SchemePromise(s2, "req_001", "node2", 0).self
  IN SchemeAccept(s3, "req_001").self

\* IntegratedSystemOptimizer.run_full_optimization: the object after the
\* call and what the call raised; an exception leaves in results what the
\* parts before it have stored.
RunFullOptimization(sys) ==
  LET found == IdentifyDominantSource(AnalyzerNew(sys.components)) IN
  IF found.raised # "no" THEN [self |-> sys, raised |-> found.raised]
  ELSE
    LET dominant == found.dominant
        dominant_comp == FirstNamed(sys.components, dominant)
        contention_after ==
          CheckInvariants(ContentionNew(dominant_comp, 2), TRUE,
                          [num |-> 95, den |-> 100]).self
        elasticity ==
          ElasticityNew(dominant_comp.latency_ms, DefaultAlpha, DefaultBeta)
        opt_results ==
          OptimizeThroughput(ThroughputNew(dominant_comp, DefaultRequestSize,
                                           DefaultDivergenceLimit))
        partD ==
          ("dominant_component" :> dominant)
            @@ ("latency_metrics" :> found.metrics)
            @@ ("consensus_scheme" :> SimulatedConsensus(dominant))
            @@ ("contention" :> CalculateContention(contention_after))
            @@ ("optimal_contention_theoretical" :>
                  OptimalContention(elasticity))
            @@ sys.results
    IN IF opt_results.raised # "no"
       THEN [self |-> [sys EXCEPT !.results = partD],
             raised |-> opt_results.raised]
       ELSE [self |-> [sys EXCEPT !.results =
                         ("throughput_optimization" :> opt_results) @@ partD],
             raised |-> "no"]

\* consensus.dominant_component != self.results['dominant_component']
TargetAgrees(consensus_scheme, results) ==
  consensus_scheme.dominant_component = results["dominant_component"]
TargetDiffers(consensus_scheme, results) ==
  consensus_scheme.dominant_component # results["dominant_component"]

\* IntegratedSystemOptimizer.validate_assumption_chain
ValidateAssumptionChain(sys) ==
  IF "dominant_component" \notin DOMAIN sys.results THEN FALSE
  ELSE IF \/ "consensus_scheme" \notin DOMAIN sys.results
          \/ TargetDiffers(sys.results["consensus_scheme"], sys.results)
       THEN FALSE
  ELSE IF "contention" \notin DOMAIN sys.results THEN FALSE
  ELSE TRUE

SystemInit ==
  /\ components = << >>
  /\ \E n \in 1 .. MaxSystemComponents :
       \E f \in [1 .. n -> SystemChoices(n)] :
         system = SystemNew(ComponentList(n, f))
  /\ run_state = "never"
  /\ lastCall = NoCall
  /\ analyzer = None
  /\ consensus = None
  /\ granted = [r \in RequestIds |-> 0]
  /\ contention_model = None
  /\ last_check = None
  /\ throughput_optimizer = None

DoRunFullOptimization ==
  LET r == RunFullOptimization(system) IN
  /\ system' = r.self
  /\ run_state' = IF r.raised = "no" THEN "completed"
                  ELSE IF run_state = "completed" THEN "completed"
                  ELSE "raised"
  /\ lastCall' = [op |-> "run_full_optimization", raised |-> r.raised]
  /\ UNCHANGED exceptSystem

DoValidateAssumptionChain ==
  /\ lastCall' = [op |-> "validate_assumption_chain",
                  ret |-> ValidateAssumptionChain(system)]
  /\ UNCHANGED <<system, run_state, exceptSystem>>

SystemNext == DoRunFullOptimization \/ DoValidateAssumptionChain

SpecSystem == SystemInit /\ [][SystemNext]_vars

\* The three links of the chain, read off the Result Record.
ChainIntact(results) ==
  /\ "dominant_component" \in DOMAIN results
  /\ "consensus_scheme" \in DOMAIN results
  /\ results["consensus_scheme"].dominant_component =
       results["dominant_component"]
  /\ "contention" \in DOMAIN results

\* C8: validate_assumption_chain returns true exactly when the Result Record
\* holds a dominant component, a simulator whose target is that component
\* and a contention value; so it returns false before any run of
\* run_full_optimization and true after a run has completed.
C8_ChainValidation ==
  lastCall.op = "validate_assumption_chain" =>
    /\ lastCall.ret = ChainIntact(system.results)
    /\ run_state = "never" => lastCall.ret = FALSE
    /\ run_state = "completed" => lastCall.ret = TRUE

\* The chain has been validated after a completed run on two components of
\* which the second is dominant.
C8_Witness ==
  /\ lastCall.op = "validate_assumption_chain"
  /\ lastCall.ret = TRUE
  /\ run_state = "completed"
  /\ Len(system.components) = 2
  /\ system.results["consensus_scheme"].dominant_component = "QueueRelay"

====
